---- MODULE Spec2Model ----
(***************************************************************************)
(* A model of sailboat.py, a command-line web browser: Browser.parse and   *)
(* its helpers (the markup extractor), Display.draw / Display._scroll (the *)
(* viewport renderer) and the interaction loop of main.                    *)
(*                                                                         *)
(* Strings are sequences of one-character strings, so that isspace, strip, *)
(* split and concatenation are computed as Python computes them.           *)
(***************************************************************************)
EXTENDS Integers, Sequences, FiniteSets, TLC

VARIABLES
    pc,               \* where the program is: "main", "get_search_query", "await_command",
                      \* "terminated", "raised"; or, for Browser.parse alone, "parse", "returned"
    exc,              \* the uncaught exception that ended the program, or "none"
    content,          \* process: the WebsiteContent returned by Browser.search
    parsedContent,    \* process: what Browser.parse returned
    current_content,  \* Display._current_content
    page,             \* Display.draw: the slice of the content that is drawn
    top,              \* Display._top
    bottom,           \* Display._bottom
    max_lines,        \* Display._max_lines
    current_line,     \* Display._current_line
    key,              \* await_command: the key read last
    depth,            \* number of await_command frames below the one process called
    argv              \* TRUE when a startup argument was given

vars == <<pc, exc, content, parsedContent, current_content, page,
          top, bottom, max_lines, current_line, key, depth, argv>>

(***************************************************************************)
(* Bounds of the model.                                                    *)
(***************************************************************************)
\* Longest child list of an anchor in the generated documents.
MaxAnchorChildren == 2
\* Largest number of text lines in the body of a document loaded in the loop.
MaxBodyLen == 4
\* Largest number of nested await_command calls (scroll commands since a load).
MaxScrolls == 5
\* Content windows have MinBottom .. MinBottom + ExtraRows rows.
ExtraRows == 1

\* The smallest content window _check_screen_size lets through:
\* LINES >= 3 + 3 + 1, and content_win_height = LINES - 3 - 1.
MinBottom == 3
\* The width of the content window: curses.COLS, at its minimum.
Cols == 30

(***************************************************************************)
(* Python values.                                                          *)
(***************************************************************************)
\* None, where a string may stand.
None == <<"None">>
\* None, where a list of elements may stand; Some(l) is the list l there.
NoneList == <<>>
Some(l) == <<l>>

Whitespace == {" ", "\n", "\t"}

\* str.isspace
isspace(s) == Len(s) > 0 /\ \A i \in 1..Len(s) : s[i] \in Whitespace

\* str.strip
strip(s) ==
    LET keep == {i \in 1..Len(s) : s[i] \notin Whitespace}
    IN  IF keep = {} THEN <<>>
        ELSE SubSeq(s, CHOOSE i \in keep : \A j \in keep : i <= j,
                       CHOOSE i \in keep : \A j \in keep : j <= i)

\* str.split("\n")
RECURSIVE split(_)
split(s) ==
    LET nl == {i \in 1..Len(s) : s[i] = "\n"}
    IN  IF nl = {} THEN <<s>>
        ELSE LET i == CHOOSE k \in nl : \A j \in nl : k <= j
             IN  <<SubSeq(s, 1, i - 1)>> \o split(SubSeq(s, i + 1, Len(s)))

\* filter(None, lines): the lines that are not empty
RECURSIVE filter(_)
filter(lines) ==
    IF lines = <<>> THEN <<>>
    ELSE (IF Len(Head(lines)) = 0 THEN <<>> ELSE <<Head(lines)>>) \o filter(Tail(lines))

\* seq[i:j], with Python's treatment of negative and out-of-range indices
Clamp(i, n) == IF i < 0 THEN (IF i + n < 0 THEN 0 ELSE i + n) ELSE (IF i > n THEN n ELSE i)
Slice(seq, i, j) ==
    LET lo == Clamp(i, Len(seq))
        hi == Clamp(j, Len(seq))
    IN  IF lo < hi THEN SubSeq(seq, lo + 1, hi) ELSE <<>>

(***************************************************************************)
(* The document tree BeautifulSoup hands to Browser.parse: a node is a     *)
(* NavigableString, a Comment or a Tag.                                    *)
(***************************************************************************)
\* element.name of a node that is no tag
NoName == "None"
NavigableString(s) == [kind |-> "string", name |-> NoName, str |-> s, children |-> <<>>]
Comment(s) == [kind |-> "comment", name |-> NoName, str |-> s, children |-> <<>>]
Tag(n, at, ch) == [kind |-> "tag", name |-> n, attrs |-> at, children |-> ch]
NoAttrs == [href |-> None, src |-> None, alt |-> None]

\* BeautifulSoup(content.html, "html.parser"): the root of the tree
BeautifulSoup(html) == Tag("[document]", NoAttrs, html)

\* element.get(attr)
get(element, attr) == element.attrs[attr]

\* every descendant of element, in document order
RECURSIVE descendants(_)
RECURSIVE descendantsOf(_)
descendantsOf(nodes) ==
    IF nodes = <<>> THEN <<>>
    ELSE <<Head(nodes)>> \o descendants(Head(nodes)) \o descendantsOf(Tail(nodes))
descendants(element) == descendantsOf(element.children)

\* element.find(n), which is what element.<n> means: Some(first descendant tag
\* named n) or NoneList
find(element, n) ==
    LET d == descendants(element)
        hits == {i \in 1..Len(d) : d[i].kind = "tag" /\ d[i].name = n}
    IN  IF hits = {} THEN NoneList
        ELSE Some(d[CHOOSE i \in hits : \A j \in hits : i <= j])

\* soup.get_text(): the text nodes (not the comments) joined in document order
RECURSIVE joinStrings(_)
joinStrings(nodes) ==
    IF nodes = <<>> THEN <<>>
    ELSE (IF Head(nodes).kind = "string" THEN Head(nodes).str ELSE <<>>)
         \o joinStrings(Tail(nodes))
get_text(element) == joinStrings(descendants(element))

\* element.string: the single child's string, else None
RECURSIVE string(_)
string(element) ==
    IF element.kind # "tag" THEN element.str
    ELSE IF Len(element.children) # 1 THEN None
    ELSE string(element.children[1])

(***************************************************************************)
(* The display elements (the HTMLMarkup classes) and WebsiteContent.       *)
(***************************************************************************)
WebsiteContent(html, success, errmsg) == [html |-> html, success |-> success, errmsg |-> errmsg]

HTMLMarkupLink(href, text, nestedObjects) ==
    [name |-> "link", href |-> href, text |-> text, nestedObjects |-> nestedObjects]
HTMLMarkupImage(src, alt) == [name |-> "image", src |-> src, alt |-> alt]
HTMLMarkupText(text) == [name |-> "text", text |-> text, emphasized |-> FALSE, underlined |-> FALSE]
HTMLMarkupError(errmsg) == [name |-> "error", errmsg |-> errmsg]
HTMLMarkupTitle(title) == [name |-> "title", title |-> title]

\* What a call ends with: a returned value or a raised exception.
Return(v) == [raised |-> FALSE, exc |-> "none", value |-> v]
Raise(e) == [raised |-> TRUE, exc |-> e, value |-> <<>>]

(***************************************************************************)
(* Browser._parse_as_plaintext                                             *)
(***************************************************************************)
RECURSIVE textLines(_)
textLines(lines) ==
    IF lines = <<>> THEN <<>>
    ELSE <<HTMLMarkupText(strip(Head(lines)))>> \o textLines(Tail(lines))

_parse_as_plaintext(text) == textLines(filter(split(text)))

(***************************************************************************)
(* Browser._parse                                                          *)
(***************************************************************************)
SkippedNames == {"style", "script", "head", "title", "meta", "[document]"}

RECURSIVE _parse(_)
RECURSIVE parseChildren(_)

\* the loops of lines 147-148 and 157-158: content += self._parse(child)
parseChildren(children) ==
    IF children = <<>> THEN <<>>
    ELSE _parse(Head(children)) \o parseChildren(Tail(children))

\* A slip: a link whose children extract to nothing is dropped.
parseAnchor_dropsEmptyLink(element) ==
    LET href == get(element, "href")
    IN  IF element.children = <<>> THEN <<>>
        ELSE LET child == element.children[1]
             IN  IF child.kind = "string"
                 THEN IF isspace(child.str) THEN <<>>
                      ELSE <<HTMLMarkupLink(href, child.str, NoneList)>>
                 ELSE IF parseChildren(element.children) = <<>> THEN <<>>
                 ELSE <<HTMLMarkupLink(href, None, Some(parseChildren(element.children)))>>

\* the branch of _parse for an "a" tag
parseAnchor(element) ==
    LET href == get(element, "href")
    IN  IF element.children = <<>> THEN <<>>
        ELSE LET child == element.children[1]
             IN  IF child.kind = "string"
                 THEN IF isspace(child.str) THEN <<>>
                      ELSE <<HTMLMarkupLink(href, child.str, NoneList)>>
                 ELSE <<HTMLMarkupLink(href, None, Some(parseChildren(element.children)))>>

_parse(element) ==
    IF element.kind = "comment" THEN <<>>
    ELSE IF element.name \in SkippedNames THEN <<>>
    ELSE IF element.kind = "string"
         THEN IF isspace(element.str) THEN <<>> ELSE <<HTMLMarkupText(element.str)>>
    ELSE IF element.name = "img"
         THEN <<HTMLMarkupImage(get(element, "src"), get(element, "alt"))>>
    ELSE IF element.name = "br" THEN <<HTMLMarkupText(<<"\n">>)>>
    ELSE IF element.name = "a" THEN parseAnchor(element)
    ELSE parseChildren(element.children)

(***************************************************************************)
(* Browser.parse                                                           *)
(***************************************************************************)
\* lines 97-106, for the node that stands for soup.body
parseBody(soup, body) ==
    LET parsed == _parse(body)
        head == find(soup, "head")
    IN  IF head = NoneList THEN Raise("AttributeError")   \* soup.head.title, soup.head is None
        ELSE LET title == find(head[1], "title")
                 titled == IF title # NoneList
                           THEN <<HTMLMarkupTitle(string(title[1]))>> \o parsed
                           ELSE parsed
             IN  IF Len(titled) = 0 THEN Return(<<HTMLMarkupError("Empty Page")>>)
                 ELSE Return(titled)

\* A slip: a document without body and without html root is extracted from
\* its top-level nodes instead of being read as plain text.
parseDocument_noPlaintext(markup) ==
    LET soup == BeautifulSoup(markup)
        body == find(soup, "body")
        text == get_text(soup)
        html == find(soup, "html")
    IN  IF body # NoneList THEN parseBody(soup, body[1])
        ELSE IF Len(text) = 0 THEN Return(<<HTMLMarkupError("Empty Page")>>)
        ELSE IF html # NoneList THEN parseBody(soup, html[1])
        ELSE Return(parseChildren(markup))

\* lines 82-106: parse of a successfully fetched markup
parseDocument(markup) ==
    LET soup == BeautifulSoup(markup)
        body == find(soup, "body")
        text == get_text(soup)
        html == find(soup, "html")
    IN  IF body # NoneList THEN parseBody(soup, body[1])
        ELSE IF Len(text) = 0 THEN Return(<<HTMLMarkupError("Empty Page")>>)
        ELSE IF html # NoneList THEN parseBody(soup, html[1])
        ELSE Return(_parse_as_plaintext(text))

\* A slip: the fetch status is looked at only when there is no markup.
parse_parsesFailedFetch(c) ==
    IF ~c.success /\ c.html = <<>> THEN Return(<<HTMLMarkupError(c.errmsg)>>)
    ELSE parseDocument(c.html)

parse(c) ==
    IF ~c.success THEN Return(<<HTMLMarkupError(c.errmsg)>>)
    ELSE parseDocument(c.html)

(***************************************************************************)
(* Display.draw, Display._scroll, Display._reset_page_coordinates          *)
(***************************************************************************)
\* Display._current_content before the first draw (None; never read then).
NoContent == <<>>

\* win.addstr(y, x, s) with s of n characters in a window of h rows and w
\* columns raises curses.error when the text does not end before the last
\* cell of the window
addstr_fails(y, x, n, h, w) == y >= h \/ x >= w \/ y * w + x + n >= h * w

\* textwrap.wrap(text, width), for a text without blanks inside a line that
\* is too long: nothing for a blank text, else the stripped text cut into
\* lines of width characters
RECURSIVE chunks(_, _)
chunks(s, width) ==
    IF Len(s) <= width THEN <<s>>
    ELSE <<SubSeq(s, 1, width)>> \o chunks(SubSeq(s, width + 1, Len(s)), width)
wrap(text, width) == IF strip(text) = <<>> THEN <<>> ELSE chunks(strip(text), width)

\* What _draw ends with: the next row, or an exception.
Row(r) == [exc |-> "none", row |-> r]
Fails(e) == [exc |-> e, row |-> 0]

\* lines 277-283: the wrapped lines of a text, one per row, up to max_lines
RECURSIVE drawLines(_, _, _, _, _)
drawLines(lines, row, ml, h, w) ==
    IF lines = <<>> \/ row >= ml THEN Row(row)
    ELSE IF addstr_fails(row, 1, Len(Head(lines)), h, w) THEN Fails("curses.error")
    ELSE drawLines(Tail(lines), row + 1, ml, h, w)

RECURSIVE _draw(_, _, _, _, _)
RECURSIVE drawNested(_, _, _, _, _)

\* lines 304-307: row = self._draw(row, nestedElement, isLink=True); row += 1
drawNested(nested, row, ml, h, w) ==
    IF nested = <<>> THEN Row(row)
    ELSE LET r == _draw(row, Head(nested), ml, h, w)
         IN  IF r.exc # "none" THEN r
             ELSE drawNested(Tail(nested), r.row + 1, ml, h, w)

\* _draw(row, element): isLink only chooses a colour
_draw(row, element, ml, h, w) ==
    IF element.name = "text"
    THEN IF element.text = <<"\n">> THEN Row(row + 1)
         ELSE drawLines(wrap(element.text, w - 2), row, ml, h, w)
    ELSE IF element.name = "image"
    THEN LET text == IF element.alt # None THEN element.alt ELSE element.src
         IN  IF addstr_fails(row, 1, 7, h, w) THEN Fails("curses.error")
             ELSE IF text = None THEN Fails("TypeError")             \* ": " + None
             ELSE IF addstr_fails(row, 8, 2 + Len(text), h, w) THEN Fails("curses.error")
             ELSE Row(row + 1)
    ELSE IF element.name = "link"
    THEN LET text == IF element.text # None THEN element.text ELSE element.href
         IN  IF text = None THEN Fails("TypeError")                  \* " " + None
             ELSE IF addstr_fails(row, 1, 1 + Len(text), h, w) THEN Fails("curses.error")
             ELSE IF element.nestedObjects = NoneList THEN Row(row + 1)
             ELSE drawNested(element.nestedObjects[1], row + 1, ml, h, w)
    ELSE Fails("TypeError")    \* any other element: None is returned and is the next row

\* lines 261-263: the elements of the page; a curses.error skips the
\* element, any other exception leaves draw
RECURSIVE drawPage(_, _, _, _, _)
drawPage(elements, row, ml, h, w) ==
    IF elements = <<>> THEN "none"
    ELSE LET r == _draw(row, Head(elements), ml, h, w)
         IN  IF r.exc = "curses.error" THEN drawPage(Tail(elements), row, ml, h, w)
             ELSE IF r.exc # "none" THEN r.exc
             ELSE drawPage(Tail(elements), r.row, ml, h, w)

\* draw(content) at scroll position current_line, in a window of ml + 2 rows
\* and Cols columns: the slice of the content it draws, or the exception
\* that leaves it
draw(c, cl, ml) ==
    LET h == ml + 2
        w == Cols
    IN  IF Len(c) = 0 THEN Raise("IndexError")                       \* content[0]
        ELSE IF c[1].name = "error"
        THEN IF addstr_fails(1, 1, Len(c[1].errmsg), h, w) THEN Raise("curses.error")
             ELSE Return(<<>>)
        ELSE IF c[1].name = "title" /\ c[1].title = None THEN Raise("TypeError")
        ELSE IF c[1].name = "title" /\ addstr_fails(0, 1, Len(c[1].title), h, w)
        THEN Raise("curses.error")
        ELSE LET page_ == Slice(Tail(c), cl, cl + ml)
                 e == drawPage(page_, 1, ml, h, w)
             IN  IF e # "none" THEN Raise(e) ELSE Return(page_)

\* A slip: a scroll up is ignored.
_scroll_upIgnored(direction, t, cl, b, ml) ==
    LET next_line == cl + direction
    IN  IF direction < 0 THEN [top |-> t, current_line |-> cl]
        ELSE IF next_line < b /\ t + next_line < b
        THEN [top |-> t, current_line |-> next_line]
        ELSE IF next_line = b /\ t + ml < b
        THEN [top |-> t + 1, current_line |-> cl]
        ELSE [top |-> t, current_line |-> cl]

\* A slip: the overflow scroll moves the cursor as well.
_scroll_movesBoth(direction, t, cl, b, ml) ==
    LET next_line == cl + direction
    IN  IF next_line < b /\ t + next_line < b
        THEN [top |-> t, current_line |-> next_line]
        ELSE IF next_line = b /\ t + ml < b
        THEN [top |-> t + 1, current_line |-> cl - 1]
        ELSE [top |-> t, current_line |-> cl]

\* A slip: the overflow test lets _top grow by one more.
_scroll_unboundedTop(direction, t, cl, b, ml) ==
    LET next_line == cl + direction
    IN  IF next_line < b /\ t + next_line < b
        THEN [top |-> t, current_line |-> next_line]
        ELSE IF next_line = b /\ t + ml <= b
        THEN [top |-> t + 1, current_line |-> cl]
        ELSE [top |-> t, current_line |-> cl]

\* _scroll(direction): the new (_top, _current_line)
_scroll(direction, t, cl, b, ml) ==
    LET next_line == cl + direction
    IN  IF next_line < b /\ t + next_line < b
        THEN [top |-> t, current_line |-> next_line]
        ELSE IF next_line = b /\ t + ml < b
        THEN [top |-> t + 1, current_line |-> cl]
        ELSE [top |-> t, current_line |-> cl]

UP == -1
DOWN == 1

(***************************************************************************)
(* The inputs: documents as html.parser builds them.                       *)
(***************************************************************************)
s_Hi == <<"H", "i">>
s_click == <<"c", "l", "i", "c", "k">>
s_bold == <<"b", "o", "l", "d">>
s_text == <<" ", "t", "e", "x", "t">>
s_bold_text == s_bold \o s_text
s_x == <<"/", "x">>
s_T == <<"T">>
s_space == <<" ">>
s_newline == <<"\n">>
s_c == <<"c">>

Attrs(href, src, alt) == [href |-> href, src |-> src, alt |-> alt]
Element(n, ch) == Tag(n, NoAttrs, ch)
Anchor(href, ch) == Tag("a", Attrs(href, None, None), ch)
Img(src, alt) == Tag("img", Attrs(None, src, alt), <<>>)
TitleT == Element("title", <<NavigableString(s_T)>>)

SeqsUpTo(S, n) == UNION {[1..k -> S] : k \in 0..n}

\* html.parser never leaves two text nodes side by side
NoAdjacentStrings(k) ==
    \A i \in 1..(Len(k) - 1) : ~(k[i].kind = "string" /\ k[i + 1].kind = "string")

\* the nodes the generated child lists are made of
Pool ==
    { NavigableString(s_click), NavigableString(s_space), NavigableString(s_text),
      NavigableString(s_newline), Comment(s_c),
      Element("b", <<NavigableString(s_bold)>>), Element("b", <<>>),
      Img(s_x, None), Element("br", <<>>) }

Kids == {k \in SeqsUpTo(Pool, MaxAnchorChildren) : NoAdjacentStrings(k)}
Anchors == {Anchor(h, k) : h \in {s_x, None}, k \in Kids}
\* what stands where a body's content stands
Bodies == Kids \cup {<<a>> : a \in Anchors}

\* the documents around a content k
Shapes(k) ==
    { k,                                                             \* no html, no body
      <<Element("html", <<Element("body", k)>>)>>,                   \* no head
      <<Element("html", <<Element("head", <<>>), Element("body", k)>>)>>,
      <<Element("html", <<Element("head", <<TitleT>>), Element("body", k)>>)>>,
      <<Element("html", <<Element("head", <<Element("title", <<>>)>>), Element("body", k)>>)>>,
      <<Element("html", <<Element("head", <<TitleT>>)>> \o k)>>,     \* no body
      <<Element("html", k)>>,                                        \* no body, no head
      <<Element("head", <<TitleT>>)>> \o k,                          \* no html, no body
      <<Element("html", <<TitleT, Element("body", k)>>)>> }          \* title outside head

\* <html><body><h1>Hi</h1></body></html>
Example1 == <<Element("html", <<Element("body", <<Element("h1", <<NavigableString(s_Hi)>>)>>)>>)>>
\* <a href="/x">click</a>
Example2 == <<Anchor(s_x, <<NavigableString(s_click)>>)>>
\* <a href="/x"><b>bold</b> text</a>
Example3 == <<Anchor(s_x, <<Element("b", <<NavigableString(s_bold)>>), NavigableString(s_text)>>)>>
\* <html><body></body></html>
Example4 == <<Element("html", <<Element("body", <<>>)>>)>>
\* <html><head></head><body><a href="/x"><a>click</a></a></body></html>
Example5 ==
    <<Element("html", <<Element("head", <<>>),
        Element("body", <<Anchor(s_x, <<Anchor(None, <<NavigableString(s_click)>>)>>)>>)>>)>>
\* text of several lines, some of them blank, outside any element
ExampleLines == <<NavigableString(s_Hi \o s_newline \o s_newline \o s_space \o s_T \o s_newline)>>

Documents ==
    UNION {Shapes(k) : k \in Bodies}
    \cup {Example1, Example2, Example3, Example4, Example5, ExampleLines}

ErrorMessages == {"timeout", "<urlopen error>"}

\* what Browser.parse may be handed
Contents ==
    {WebsiteContent(d, TRUE, "") : d \in Documents}
    \cup {WebsiteContent(d, FALSE, m) : d \in Documents, m \in ErrorMessages}

(***************************************************************************)
(* Browser.parse alone: applied once to each input.                        *)
(***************************************************************************)
InitExtract ==
    /\ pc = "parse"
    /\ exc = "none"
    /\ content \in Contents
    /\ parsedContent = <<>>
    /\ current_content = NoContent
    /\ page = <<>>
    /\ top = 0
    /\ bottom = MinBottom
    /\ max_lines = MinBottom - 2
    /\ current_line = 0
    /\ key = ""
    /\ depth = 0
    /\ argv = FALSE

Extract ==
    /\ pc = "parse"
    /\ LET r == parse(content)
       IN  /\ pc' = IF r.raised THEN "raised" ELSE "returned"
           /\ exc' = r.exc
           /\ parsedContent' = r.value
    /\ UNCHANGED <<content, current_content, page, top, bottom, max_lines,
                   current_line, key, depth, argv>>

NextExtract == Extract

SpecExtract == InitExtract /\ [][NextExtract]_vars

(***************************************************************************)
(* The whole program: main, process, get_search_query, await_command.      *)
(***************************************************************************)
Digits == <<"1", "2", "3", "4", "5", "6", "7", "8", "9">>
Line(i) == <<"L", Digits[i]>>
Paragraphs(n) == [i \in 1..n |-> Element("p", <<NavigableString(Line(i))>>)]
RECURSIVE Lines(_)
Lines(n) == IF n = 0 THEN <<>> ELSE Lines(n - 1) \o Line(n) \o s_newline

TitledDocument(n) ==
    <<Element("html", <<Element("head", <<TitleT>>), Element("body", Paragraphs(n))>>)>>
UntitledDocument(n) ==
    <<Element("html", <<Element("head", <<>>), Element("body", Paragraphs(n))>>)>>
PlainDocument(n) == <<NavigableString(s_newline \o Lines(n))>>

Page(head, body) == <<Element("html", <<Element("head", head), Element("body", body)>>)>>
LongString == [i \in 1..(4 * Cols) |-> "T"]

\* a simple link, an image, a compound link and a line break
LinkDocument ==
    Page(<<TitleT>>,
         <<Anchor(s_x, <<NavigableString(s_click)>>),
           Img(s_x, None),
           Anchor(s_x, <<Element("b", <<NavigableString(s_bold)>>), NavigableString(s_text)>>),
           Element("br", <<>>)>>)
\* a paragraph and then <a><b>bold</b></a>
NoHrefDocument ==
    Page(<<TitleT>>, Paragraphs(1) \o <<Anchor(None, <<Element("b", <<NavigableString(s_bold)>>)>>)>>)
LongTitleDocument == Page(<<Element("title", <<NavigableString(LongString)>>)>>, Paragraphs(1))
EmptyTitleDocument == Page(<<Element("title", <<>>)>>, Paragraphs(1))
LongImageDocument == Page(<<TitleT>>, <<Img(LongString, None)>> \o Paragraphs(1))

\* the documents a search may find
FoundDocuments ==
    {TitledDocument(n) : n \in 0..MaxBodyLen}
    \cup {UntitledDocument(n) : n \in 0..MaxBodyLen}
    \cup {PlainDocument(n) : n \in 0..MaxBodyLen}
    \cup {Example1, LinkDocument, NoHrefDocument, LongTitleDocument, EmptyTitleDocument,
          LongImageDocument, <<>>}

\* A query: the string, its first character, and whether its lower case
\* ends with ".html".
Query(s, first, html) == [string |-> s, first |-> first, endswith_html |-> html]
Queries ==
    {Query("example.com", "e", FALSE),
     Query("./page.html", ".", TRUE),
     Query("/home/user/Documents/websites/archive/2020/saved/pages/front/index.htm", "/", FALSE)}

\* What a query meets outside the program: whether a file of that name
\* exists and is a regular file, and how fetching or reading goes: "ok" with
\* the text, or the exception of urlopen, read and decode, or of open and
\* read.
Outcomes == {"ok", "URLError", "HTTPException", "UnicodeDecodeError", "ConnectionResetError"}
FileOutcomes == {"ok", "UnicodeDecodeError"}

_is_path(query, exists) == query.first \in {"~", "/", "."} \/ exists

AllEnvironments ==
    {[exists |-> e, isfile |-> e /\ f, kind |-> "ok", html |-> d, msg |-> ""] :
        e \in BOOLEAN, f \in BOOLEAN, d \in FoundDocuments}
    \cup {[exists |-> e, isfile |-> e /\ f, kind |-> k, html |-> <<>>, msg |-> m] :
        e \in BOOLEAN, f \in BOOLEAN, k \in Outcomes \ {"ok"}, m \in ErrorMessages}
\* whether search(query) gets as far as fetching the URL or reading the file
reads(query, env) ==
    _is_path(query, env.exists) => (env.exists /\ env.isfile /\ query.endswith_html)
\* Reading a file does not end with an exception of the network, and the
\* outcome of a read that does not happen is left out (the empty text).
Environments(query) ==
    {env \in AllEnvironments :
        /\ _is_path(query, env.exists) => env.kind \in FileOutcomes
        /\ ~reads(query, env) => (env.kind = "ok" /\ env.html = <<>>)}

\* _web_search(url): URLError, HTTPException and UnicodeDecodeError are
\* caught; any other exception leaves it
_web_search(env) ==
    IF env.kind = "ok" THEN Return(WebsiteContent(env.html, TRUE, ""))
    ELSE IF env.kind \in {"URLError", "HTTPException", "UnicodeDecodeError"}
    THEN Return(WebsiteContent(<<>>, FALSE, env.msg))
    ELSE Raise(env.kind)

\* _file_search(path): open and read are under no try
_file_search(path, env) ==
    IF ~env.exists \/ ~env.isfile \/ ~path.endswith_html
    THEN Return(WebsiteContent(<<>>, FALSE,
                               "'" \o path.string \o "' is not a valid path to an HTML file."))
    ELSE IF env.kind = "ok" THEN Return(WebsiteContent(env.html, TRUE, ""))
    ELSE Raise(env.kind)

search(query, env) ==
    IF _is_path(query, env.exists) THEN _file_search(query, env) ELSE _web_search(env)

\* the local variable content of process before Browser.search has returned
NoWebsiteContent == WebsiteContent(<<>>, TRUE, "")

Init ==
    /\ pc = "main"
    /\ exc = "none"
    /\ content = NoWebsiteContent
    /\ parsedContent = <<>>
    /\ current_content = NoContent
    /\ page = <<>>
    /\ top = 0
    /\ bottom \in MinBottom..(MinBottom + ExtraRows)
    /\ max_lines = bottom - 2
    /\ current_line = 0
    /\ key = ""
    /\ depth = 0
    /\ argv \in BOOLEAN

\* process(query) from the return of browser.search(query), which is c, up
\* to the first getch of await_command; t and cl are _top and _current_line
processContent(c, t, cl) ==
    LET r == parse(c)
        d == draw(r.value, cl, max_lines)
    IN  /\ content' = c
        /\ top' = t
        /\ current_line' = cl
        /\ key' = ""
        /\ depth' = 0
        /\ IF r.raised
           THEN /\ pc' = "raised"
                /\ exc' = r.exc
                /\ UNCHANGED <<parsedContent, current_content, page>>
           ELSE /\ parsedContent' = r.value
                /\ current_content' = r.value
                /\ IF d.raised
                   THEN pc' = "raised" /\ exc' = d.exc /\ UNCHANGED page
                   ELSE pc' = "await_command" /\ exc' = "none" /\ page' = d.value
        /\ UNCHANGED <<bottom, max_lines, argv>>

\* process(query) in an environment env: an exception of search leaves it
process(query, env, t, cl) ==
    LET s == search(query, env)
    IN  IF s.raised
        THEN /\ pc' = "raised"
             /\ exc' = s.exc
             /\ top' = t
             /\ current_line' = cl
             /\ UNCHANGED <<content, parsedContent, current_content, page, bottom,
                            max_lines, key, depth, argv>>
        ELSE processContent(s.value, t, cl)

\* main, len(sys.argv) == 2: finished = process(query)
MainWithArgument ==
    /\ pc = "main"
    /\ argv
    /\ \E query \in Queries : \E env \in Environments(query) : process(query, env, top, current_line)

\* main, no argument: the loop is entered
MainNoArgument ==
    /\ pc = "main"
    /\ ~argv
    /\ pc' = "get_search_query"
    /\ UNCHANGED <<exc, content, parsedContent, current_content, page, top, bottom,
                   max_lines, current_line, key, depth, argv>>

\* get_search_query returns "": continue
EmptyQuery ==
    /\ pc = "get_search_query"
    /\ top' = 0
    /\ current_line' = 0
    /\ UNCHANGED <<pc, exc, content, parsedContent, current_content, page, bottom,
                   max_lines, key, depth, argv>>

\* A slip: the scroll position is not reset before the query is read.
Search_noReset ==
    /\ pc = "get_search_query"
    /\ \E query \in Queries : \E env \in Environments(query) : process(query, env, top, current_line)

\* get_search_query returns a query: finished = process(query)
Search ==
    /\ pc = "get_search_query"
    /\ \E query \in Queries : \E env \in Environments(query) : process(query, env, 0, 0)

\* await_command reads q: finished = True in the frame that read it; the
\* frames above it return their own finished, which is False
KeyQuit ==
    /\ pc = "await_command"
    /\ key' = "q"
    /\ pc' = IF depth = 0 THEN "terminated" ELSE "get_search_query"
    /\ depth' = 0
    /\ UNCHANGED <<exc, content, parsedContent, current_content, page, top, bottom,
                   max_lines, current_line, argv>>

\* await_command reads s: _focus_search_win, and every frame returns False
KeySearch ==
    /\ pc = "await_command"
    /\ key' = "s"
    /\ pc' = "get_search_query"
    /\ depth' = 0
    /\ UNCHANGED <<exc, content, parsedContent, current_content, page, top, bottom,
                   max_lines, current_line, argv>>

\* await_command reads an arrow key: _scroll(direction), which draws, and
\* await_command again
scrollCommand(k, direction) ==
    /\ pc = "await_command"
    /\ depth < MaxScrolls
    /\ key' = k
    /\ depth' = depth + 1
    /\ LET s == _scroll(direction, top, current_line, bottom, max_lines)
           d == draw(current_content, s.current_line, max_lines)
       IN  /\ top' = s.top
           /\ current_line' = s.current_line
           /\ IF d.raised
              THEN pc' = "raised" /\ exc' = d.exc /\ UNCHANGED page
              ELSE page' = d.value /\ UNCHANGED <<pc, exc>>
    /\ UNCHANGED <<content, parsedContent, current_content, bottom, max_lines, argv>>

KeyDown == scrollCommand("KEY_DOWN", DOWN)
KeyUp == scrollCommand("KEY_UP", UP)

\* await_command reads any other key: the while loop reads again
KeyIgnored ==
    /\ pc = "await_command"
    /\ key' = "x"
    /\ UNCHANGED <<pc, exc, content, parsedContent, current_content, page, top, bottom,
                   max_lines, current_line, depth, argv>>

Next ==
    \/ MainWithArgument
    \/ MainNoArgument
    \/ EmptyQuery
    \/ Search
    \/ KeyQuit
    \/ KeySearch
    \/ KeyDown
    \/ KeyUp
    \/ KeyIgnored

Spec == Init /\ [][Next]_vars

(***************************************************************************)
(* The claims.                                                             *)
(***************************************************************************)
\* the scrollable body of a sequence: the elements after a leading Title
Body(c) == IF Len(c) > 0 /\ c[1].name = "title" THEN Tail(c) ELSE c

\* body[cl .. cl + ml), for cl >= 0
Window(body, cl, ml) ==
    SubSeq(body, cl + 1, IF cl + ml < Len(body) THEN cl + ml ELSE Len(body))

\* C1: while content is loaded, reading q always ends the program (pc goes
\* from await_command to terminated), whatever number of scroll commands
\* preceded it, and only reading s leads from await_command back to
\* get_search_query.
C1_QuitTerminates ==
    [][ /\ (pc = "await_command" /\ key' = "q") => pc' = "terminated"
        /\ (pc = "await_command" /\ pc' = "get_search_query") => key' = "s" ]_vars

\* C2: Browser.parse never raises, whatever the document and the fetch status.
C2_ParseNeverRaises == pc # "raised"

\* C3: every sequence Browser.parse returns has at least one element.
C3_ExtractNonEmpty == pc = "returned" => Len(parsedContent) >= 1

\* C4: current_line >= 0 in every state reached by scroll commands (so that
\* scrolling up at top = 0, current_line = 0 changes nothing).
C4_CurrentLineNonNegative == current_line >= 0

\* C5: scrolling down at current_line = 0 while the body of the held sequence
\* has at most max_lines rows leaves (top, current_line) as they were.
C5_ScrollDownShortPageNoOp ==
    [][ ( /\ pc = "await_command" /\ key' = "KEY_DOWN" /\ depth' = depth + 1
          /\ current_content[1].name # "error"
          /\ current_line = 0
          /\ Len(Body(current_content)) <= max_lines )
        => (top' = top /\ current_line' = current_line) ]_vars

\* C6: what draw draws is body[current_line .. current_line + max_lines),
\* the body being the sequence without its leading Title when it has one, so
\* that the first element of a sequence with no Title is drawn at
\* current_line = 0.
C6_WindowOfBody ==
    ( /\ pc = "await_command"
      /\ current_content[1].name # "error"
      /\ current_line >= 0 )
    => page = Window(Body(current_content), current_line, max_lines)

\* C7: for a failed fetch Browser.parse returns exactly [Error(errmsg)],
\* whatever the markup is.
C7_FailedFetchYieldsError ==
    (pc # "parse" /\ ~content.success)
    => (pc = "returned" /\ parsedContent = <<[name |-> "error", errmsg |-> content.errmsg]>>)

\* C7, its case: a failed fetch that carries the markup of Example3.
C7_Witness ==
    /\ pc = "returned"
    /\ content = WebsiteContent(Example3, FALSE, "timeout")
    /\ parsedContent = <<[name |-> "error", errmsg |-> "timeout"]>>

TextElement(s) == [name |-> "text", text |-> s, emphasized |-> FALSE, underlined |-> FALSE]
LinkElement(href, text, nested) ==
    [name |-> "link", href |-> href, text |-> text, nestedObjects |-> nested]

\* C8 as stated: a document that is a single anchor, with no html and no
\* body around it, yields a single Link.
C8_AnchorDocumentYieldsLink ==
    (pc # "parse" /\ content.success)
    => /\ content.html = Example2
          => (pc = "returned" /\ parsedContent = <<LinkElement(s_x, s_click, NoneList)>>)
       /\ content.html = Example3
          => ( /\ pc = "returned"
               /\ parsedContent =
                    <<LinkElement(s_x, None, Some(<<TextElement(s_bold), TextElement(s_text)>>))>> )

\* C8 as amended: such a document is read as plain text; it yields no Link
\* but the Text of its lines: [Text("click")] and [Text("bold text")].
C8_AnchorDocumentYieldsText ==
    (pc # "parse" /\ content.success)
    => /\ content.html = Example2
          => (pc = "returned" /\ parsedContent = <<TextElement(s_click)>>)
       /\ content.html = Example3
          => (pc = "returned" /\ parsedContent = <<TextElement(s_bold_text)>>)
       /\ (Len(content.html) = 1 /\ content.html[1].name = "a")
          => /\ pc = "returned"
             /\ \A i \in 1..Len(parsedContent) : parsedContent[i].name # "link"
             /\ \/ \A i \in 1..Len(parsedContent) : parsedContent[i].name = "text"
                \/ parsedContent = <<[name |-> "error", errmsg |-> "Empty Page"]>>

\* C8, its case: Example3 has been extracted.
C8_Witness ==
    /\ pc = "returned"
    /\ content = WebsiteContent(Example3, TRUE, "")
    /\ parsedContent = <<TextElement(s_bold_text)>>

\* the rule of the specification for one "a" node
RECURSIVE ExtractEach(_)
ExtractEach(children) ==
    IF children = <<>> THEN <<>> ELSE _parse(Head(children)) \o ExtractEach(Tail(children))
AnchorRule(a) ==
    IF Len(a.children) = 0 THEN <<>>
    ELSE IF a.children[1].kind = "string"
         THEN IF isspace(a.children[1].str) THEN <<>>
              ELSE <<LinkElement(a.attrs.href, a.children[1].str, NoneList)>>
    ELSE <<LinkElement(a.attrs.href, None, Some(ExtractEach(a.children)))>>

AnchorsOf(markup) ==
    LET d == descendantsOf(markup)
    IN  {d[i] : i \in {j \in 1..Len(d) : d[j].kind = "tag" /\ d[j].name = "a"}}

\* <html><head></head><body><a ...>...</a></body></html>
IsAnchorPage(markup) ==
    /\ Len(markup) = 1
    /\ markup[1].name = "html"
    /\ Len(markup[1].children) = 2
    /\ markup[1].children[1] = Element("head", <<>>)
    /\ markup[1].children[2].name = "body"
    /\ Len(markup[1].children[2].children) = 1
    /\ markup[1].children[2].children[1].name = "a"
AnchorOfPage(markup) == markup[1].children[2].children[1]

\* C9: every "a" node of a document contributes what the rule says: nothing
\* without children; by a first child that is text, one Link of that text and
\* no children (nothing if the text is whitespace); by any other first child
\* one Link without text whose children are the extractions of all children
\* in order, even when these are empty. A page whose body is one anchor
\* yields just that contribution.
C9_AnchorRule ==
    /\ \A a \in AnchorsOf(content.html) : _parse(a) = AnchorRule(a)
    /\ (pc # "parse" /\ content.success /\ IsAnchorPage(content.html))
       => /\ pc = "returned"
          /\ parsedContent =
               IF AnchorRule(AnchorOfPage(content.html)) = <<>>
               THEN <<[name |-> "error", errmsg |-> "Empty Page"]>>
               ELSE AnchorRule(AnchorOfPage(content.html))

\* C9, its case: an anchor whose only child is a comment yields a Link with
\* an empty list of children.
C9_Witness ==
    /\ pc = "returned"
    /\ content.success
    /\ IsAnchorPage(content.html)
    /\ AnchorOfPage(content.html) = Anchor(s_x, <<Comment(s_c)>>)
    /\ parsedContent = <<LinkElement(s_x, None, Some(<<>>))>>

HasTitle(markup) ==
    LET d == descendantsOf(markup)
    IN  \E i \in 1..Len(d) : d[i].kind = "tag" /\ d[i].name = "title"

\* C10: a successfully fetched document with a title yields a sequence that
\* starts with a Title; one without a title yields a sequence with no Title.
C10_TitleFirstIffTitled ==
    (pc # "parse" /\ content.success)
    => IF HasTitle(content.html)
       THEN pc = "returned" /\ Len(parsedContent) > 0 /\ parsedContent[1].name = "title"
       ELSE pc = "returned"
            => \A i \in 1..Len(parsedContent) : parsedContent[i].name # "title"

\* every node of the markup, in document order
NodesOf(markup) == descendantsOf(markup)

\* a document with nothing to extract: its text nodes are all whitespace and
\* it has no image, link, line break or title
NothingToExtract(markup) ==
    LET d == NodesOf(markup)
    IN  \A i \in 1..Len(d) :
            /\ d[i].kind = "string" => isspace(d[i].str)
            /\ d[i].kind = "tag" => d[i].name \notin {"img", "a", "title", "br"}

\* C11: a successfully fetched document with nothing to extract (an empty
\* body in an empty html root, or only whitespace text, with or without body
\* and html root) yields exactly [Error("Empty Page")].
C11_EmptyDocumentYieldsEmptyPage ==
    (pc # "parse" /\ content.success /\ NothingToExtract(content.html))
    => (pc = "returned" /\ parsedContent = <<[name |-> "error", errmsg |-> "Empty Page"]>>)

\* the Text elements of a sequence, those inside the children of Links included
RECURSIVE TextsOf(_)
TextsOf(elements) ==
    IF elements = <<>> THEN {}
    ELSE LET e == Head(elements)
         IN  (IF e.name = "text" THEN {e.text}
              ELSE IF e.name = "link" /\ e.nestedObjects # NoneList
                   THEN TextsOf(e.nestedObjects[1])
              ELSE {})
             \cup TextsOf(Tail(elements))

\* the text nodes that are not whitespace and not inside a skipped node
RECURSIVE ShownStrings(_)
ShownStrings(nodes) ==
    IF nodes = <<>> THEN {}
    ELSE LET n == Head(nodes)
         IN  (IF n.kind = "comment" THEN {}
              ELSE IF n.kind = "string" THEN (IF isspace(n.str) THEN {} ELSE {n.str})
              ELSE IF n.name \in SkippedNames THEN {}
              ELSE ShownStrings(n.children))
             \cup ShownStrings(Tail(nodes))

\* C12: no Text of the output, at top level or inside a Link, is empty or
\* whitespace other than the "\n" of a br, and every text node that is not
\* whitespace and not inside a skipped node is a Text of the output.
C12_TextsAreTheShownStrings ==
    (pc = "returned" /\ content.success)
    => /\ \A s \in TextsOf(parsedContent) : s = <<"\n">> \/ (Len(s) > 0 /\ ~isspace(s))
       /\ \A s \in ShownStrings(content.html) : s \in TextsOf(parsedContent)

\* element.text if it is not None, else element.href; element.alt if it is
\* not None, else element.src; the title
LabelOf(e) ==
    IF e.name = "link" THEN (IF e.text # None THEN e.text ELSE e.href)
    ELSE IF e.name = "image" THEN (IF e.alt # None THEN e.alt ELSE e.src)
    ELSE IF e.name = "title" THEN e.title
    ELSE <<>>

RECURSIVE LabelsDefined(_)
LabelsDefined(elements) ==
    \A i \in 1..Len(elements) :
        /\ LabelOf(elements[i]) # None
        /\ (elements[i].name = "link" /\ elements[i].nestedObjects # NoneList)
           => LabelsDefined(elements[i].nestedObjects[1])

\* C20: every element Browser.parse emits has a label to draw: the text or
\* else the href of a Link, the alt or else the src of an Image and the text
\* of a Title are strings, never None.
C20_LabelsDefined == pc = "returned" => LabelsDefined(parsedContent)

\* a step of await_command that reads an arrow key and calls _scroll
ScrollStep == pc = "await_command" /\ depth' = depth + 1

\* C13: from every scroll state in which a scroll down takes the normal
\* branch (0 <= current_line, current_line + 1 < bottom and
\* top + current_line + 1 < bottom), the scroll down moves current_line by
\* one and leaves top, and a scroll up from the state it leads to gives back
\* the (top, current_line) pair it started from.
C13_DownThenUpRestores ==
    [][(/\ ScrollStep
        /\ key' = "KEY_DOWN"
        /\ 0 <= current_line
        /\ current_line + 1 < bottom
        /\ top + current_line + 1 < bottom)
       => /\ top' = top
          /\ current_line' = current_line + 1
          /\ _scroll(UP, top', current_line', bottom', max_lines')
                 = [top |-> top, current_line |-> current_line]]_vars

\* a scroll down from (0, 0) and then a scroll up have been read
C13_Witness ==
    pc = "await_command" /\ depth = 2 /\ key = "KEY_UP" /\ top = 0 /\ current_line = 0

\* a step of main that runs process(query)
SearchStep == pc \in {"main", "get_search_query"} /\ pc' \in {"await_command", "raised"}

\* C14: whenever process runs for a query, the one of the command line or
\* one of the search bar, _top and _current_line are 0 when the new sequence
\* is drawn, and the page drawn is the one of position 0, whatever commands
\* came before.
C14_NewSearchDrawsFromZero ==
    [][SearchStep
       => /\ top' = 0
          /\ current_line' = 0
          /\ pc' = "await_command" => page' = draw(parsedContent', 0, max_lines').value]_vars

\* a query of the search bar has been processed and its page is drawn
C14_Witness ==
    /\ pc = "await_command"
    /\ ~argv
    /\ depth = 0
    /\ key = ""
    /\ top = 0
    /\ current_line = 0
    /\ Len(page) > 0

\* C17: a scroll command leaves the held sequence, the extracted sequence
\* and the fetched content as they are, and leaves bottom and max_lines; a
\* normal scroll changes only current_line, by the direction; an overflow
\* scroll down changes only top, by one; any other scroll changes neither.
C17_ScrollChangesScrollStateOnly ==
    [][ScrollStep
       => LET direction == IF key' = "KEY_DOWN" THEN 1 ELSE 0 - 1
              next_line == current_line + direction
              normal == next_line < bottom /\ top + next_line < bottom
              overflow == ~normal /\ next_line = bottom /\ top + max_lines < bottom
          IN  /\ current_content' = current_content
              /\ parsedContent' = parsedContent
              /\ content' = content
              /\ bottom' = bottom
              /\ max_lines' = max_lines
              /\ normal => (top' = top /\ current_line' = next_line)
              /\ overflow => (top' = top + 1 /\ current_line' = current_line)
              /\ (~normal /\ ~overflow) => (top' = top /\ current_line' = current_line)]_vars

\* an overflow scroll down has been read
C17_Witness ==
    /\ pc = "await_command"
    /\ key = "KEY_DOWN"
    /\ depth > 0
    /\ top = 1
    /\ current_line = bottom - 1
    /\ current_content # NoContent

\* C19: a scroll command never lowers top, never leaves it above 2 and never
\* leaves current_line above bottom - 1; top is 2 only with current_line at
\* bottom - 1, reached by an overflow scroll down; and from top = 2 every
\* scroll, up or down, leaves top and current_line as they are.
C19_TopBounded ==
    [][ScrollStep
       => /\ top' >= top
          /\ top' <= 2
          /\ current_line' <= bottom - 1
          /\ top' = 2 => current_line' = bottom - 1
          /\ (top' = 2 /\ top # 2)
                => (top = 1 /\ key' = "KEY_DOWN" /\ current_line = bottom - 1)
          /\ top = 2 => (top' = top /\ current_line' = current_line)]_vars

\* top is 2 and a scroll up has been read after that
C19_Witness ==
    /\ pc = "await_command"
    /\ top = 2
    /\ key = "KEY_UP"
    /\ depth = MaxScrolls

\* C15: a write of draw that does not fit the window never ends the
\* program: whether it is the write of a body element, of the title or of
\* an error page, its curses.error does not leave draw.
C15_RenderOverflowNotFatal == ~(pc = "raised" /\ exc = "curses.error")

\* C16: a failure to acquire the page never ends the program: no exception
\* of fetching, decoding or reading the file leaves search, for a URL as for
\* a path; the search ends awaiting a command with the Error element drawn.
C16_AcquisitionFailureNotFatal ==
    ~(pc = "raised"
      /\ exc \in {"URLError", "HTTPException", "UnicodeDecodeError", "ConnectionResetError"})

\* the (top, current_line) pairs that at most n scroll commands lead to
\* from the reset state
RECURSIVE ScrollStates(_, _, _)
ScrollStates(n, b, ml) ==
    IF n = 0 THEN {[top |-> 0, current_line |-> 0]}
    ELSE LET S == ScrollStates(n - 1, b, ml)
         IN  S \cup {_scroll(d, s.top, s.current_line, b, ml) : d \in {UP, DOWN}, s \in S}

\* the indices of a body of n elements that draw slices out at current_line
Visible(n, cl, ml) ==
    LET shown == Slice([k \in 1..n |-> k], cl, cl + ml)
    IN  {shown[k] : k \in 1..Len(shown)}

\* C18: when a sequence that is not an error page has been drawn at the
\* reset state, every element of its body, the sequence after the first
\* element, is in the slice draw takes at some scroll state that scroll
\* commands lead to from (0, 0).
C18_EveryElementCanBeShown ==
    (/\ pc = "await_command"
     /\ depth = 0
     /\ Len(current_content) > 0
     /\ current_content[1].name = "title")
    => LET n == Len(Tail(current_content))
       IN  \A i \in 1..n :
               \E s \in ScrollStates(n + bottom, bottom, max_lines) :
                   i \in Visible(n, s.current_line, max_lines)

====
